---- MODULE Spec2Model ----
(***************************************************************************)
(* gdeltPyR: date validation (gdelt/inputChecks.py), locator construction  *)
(* (gdelt/vectorizingFuncs.py) and the Search pipeline (gdelt/base.py).    *)
(*                                                                         *)
(* Representation.                                                         *)
(*   - A date string is the sequence of its decimal digits; the strings    *)
(*     drawn are 4 digits (YYYY), 6 digits (YYYYMM) or 8 digits            *)
(*     (YYYYMMDD).  A bucket string is 8 digits (a day) or 14 digits (a    *)
(*     quarter-hour timestamp YYYYMMDDHHMMSS).                             *)
(*   - A datetime is the integer YYYYMMDD * 100 + q, q the index of the    *)
(*     quarter-hour of the day; the order of the integers is the order of  *)
(*     the datetimes.                                                      *)
(*   - str(datetime) ("YYYY-MM-DD HH:MM:SS") is the record [Y, M, D, q].   *)
(*   - A value that is a str or a list of str is [isList, items]; a str    *)
(*     has isList = FALSE and one item.                                    *)
(*   - A string concatenation a + b + c is the tuple <<a, b, c>>.          *)
(***************************************************************************)
EXTENDS Integers, Sequences, FiniteSets, TLC

VARIABLES
    clock,      \* index into Clock: the system time datetime.datetime.now()
    pc,         \* position of the running call
    self,       \* the gdelt object's attributes
    call,       \* arguments of the call in progress
    outcome,    \* how the call ended: the value returned or the error raised
    trace,      \* what the call did: locators built, pools, fetch tasks issued
    pool,       \* the worker pool of the multi-locator path
    results,    \* the `results` local of Search
    fn          \* a function applied on its own: its arguments and result

vars == <<clock, pc, self, call, outcome, trace, pool, results, fn>>

----------------------------------------------------------------------------
(* Bounds *)

\* longest date list drawn as input
MaxLen == 3

\* quarter-hour buckets modelled per day (the first SlotsPerDay of the day)
SlotsPerDay == 2

----------------------------------------------------------------------------
(* Dates *)

RECURSIVE Num(_)
\* the number a digit string spells
Num(s) == IF Len(s) = 0 THEN 0 ELSE 10 * Num(SubSeq(s, 1, Len(s) - 1)) + s[Len(s)]

\* the datetime at midnight of day YYYYMMDD
Midnight(day) == day * 100

DayOf(dt) == dt \div 100

\* str(datetime): "YYYY-MM-DD HH:MM:SS"
str(dt) ==
    [Y |-> DayOf(dt) \div 10000, M |-> (DayOf(dt) \div 100) % 100,
     D |-> DayOf(dt) % 100, q |-> dt % 100]

\* datetime.datetime.strptime(l, '%Y'): 1 January of the year
strptimeY(l) == Midnight(Num(l) * 10000 + 101)

\* datetime.datetime.strptime(l, '%Y%m'): the first of the month
strptimeYm(l) == Midnight(Num(l) * 100 + 1)

\* dateutil parse of a digit string: YYYYMMDD, or YYYYMMDDHHMMSS on the
\* quarter-hour grid
parse(s) ==
    IF Len(s) = 8 THEN Midnight(Num(s))
    ELSE Num(SubSeq(s, 1, 8)) * 100
         + (Num(SubSeq(s, 9, 10)) * 60 + Num(SubSeq(s, 11, 12))) \div 15

\* dateutil parse of the text str(datetime) made
parseIso(c) == (c.Y * 10000 + c.M * 100 + c.D) * 100 + c.q

\* parse('Feb 18 2015')
MinDate == 20150218

\* parse('2013 04 01')
Cutover == 20130401

\* the values datetime.datetime.now() takes, in order
Clock == <<2016100100, 2016100201>>

Now == Clock[clock]

----------------------------------------------------------------------------
(* gdelt/inputChecks.py *)

None == [isNone |-> TRUE, items |-> <<>>]

Returned(v) == [ok |-> TRUE, err |-> "", ret |-> v]

Raised(e) == [ok |-> FALSE, err |-> e, ret |-> None]

\* one pass of the loop of lines 54-71 over the element l
Normalize(l) ==
    IF Len(l) = 4 THEN str(strptimeY(l))
    ELSE IF Len(l) = 6 THEN str(strptimeYm(l))
    ELSE str(parse(l))

\* newdate after the loop of lines 54-71
NewDate(items) == [i \in 1..Len(items) |-> Normalize(items[i])]

\* the loop raises at the first element that parses before Feb 18 2015
LoopRaises(items) ==
    \E i \in 1..Len(items) : parseIso(Normalize(items[i])) < Midnight(MinDate)

\* mutant of CheckReturn: the function returns the list it built
CheckReturnNewdate(newdate) == [isNone |-> FALSE, items |-> newdate]

\* what _date_input_check returns on the paths that raise nothing: the
\* function has no return statement
CheckReturn(newdate) == None

\* the str branch, lines 40-48
CheckStr(s, now) ==
    IF Len(s) # 0 /\ parse(s) > now
    THEN Raised("ValueError: date greater than the current date")
    ELSE Returned(CheckReturn(<<>>))

\* the branch len(date) == 1, lines 74-91: the raise inside try is caught by
\* the bare except and replaced
CheckOne(nd, now) ==
    IF parseIso(nd[1]) > now
    THEN Raised("ValueError: does not parse to a date format")
    ELSE Returned(CheckReturn(nd))

\* mutant of CheckTwo: the order test lets equal dates through
CheckTwoAllowsEqual(nd, now) ==
    IF ~(parseIso(nd[1]) <= parseIso(nd[2]))
    THEN Raised("ValueError: start date greater than or equal to end date")
    ELSE IF \E i \in 1..2 : parseIso(nd[i]) > now
    THEN Raised("ValueError: date greater than the current date")
    ELSE Returned(CheckReturn(nd))

\* the branch len(date) == 2, lines 107-135
CheckTwo(nd, now) ==
    IF ~(parseIso(nd[1]) < parseIso(nd[2]))
    THEN Raised("ValueError: start date greater than or equal to end date")
    ELSE IF \E i \in 1..2 : parseIso(nd[i]) > now
    THEN Raised("ValueError: date greater than the current date")
    ELSE Returned(CheckReturn(nd))

\* mutant of CheckMany: the test against the current date is left out
CheckManyNoFutureTest(nd, now) ==
    IF \E i \in 1..Len(nd) : ~(parseIso(nd[i]) > Midnight(MinDate))
    THEN Raised("ValueError: GDELT 2.0 only supports Feb 18 2015 - Present")
    ELSE Returned(CheckReturn(nd))

\* the branch len(date) > 2, lines 138-168
CheckMany(nd, now) ==
    IF \E i \in 1..Len(nd) : parseIso(nd[i]) > now
    THEN Raised("ValueError: date greater than the current date")
    ELSE IF \E i \in 1..Len(nd) : ~(parseIso(nd[i]) > Midnight(MinDate))
    THEN Raised("ValueError: GDELT 2.0 only supports Feb 18 2015 - Present")
    ELSE Returned(CheckReturn(nd))

\* the list branch, lines 51-168
CheckList(items, now) ==
    IF LoopRaises(items)
    THEN Raised("ValueError: GDELT 2.0 only supports Feb 18 2015 - Present")
    ELSE IF Len(items) = 1 THEN CheckOne(NewDate(items), now)
    ELSE IF Len(items) = 2 THEN CheckTwo(NewDate(items), now)
    ELSE IF Len(items) > 2 THEN CheckMany(NewDate(items), now)
    ELSE Returned(CheckReturn(NewDate(items)))

\* _date_input_check(date) run when datetime.datetime.now() is `now`
date_input_check(date, now) ==
    IF date.isList THEN CheckList(date.items, now)
    ELSE CheckStr(date.items[1], now)

----------------------------------------------------------------------------
(* gdelt/vectorizingFuncs.py *)

base == "http://data.gdeltproject.org/gdeltv2/"

Tables == {"events", "mentions", "gkg"}

\* mutant of caboose: the translation flag is read the wrong way round
cabooseFlipped(table, translation) ==
    IF table = "events"
    THEN (IF translation THEN ".export.CSV.zip"
          ELSE ".translation.export.CSV.zip")
    ELSE IF table = "mentions"
    THEN (IF translation THEN ".mentions.CSV.zip"
          ELSE ".translation.mentions.CSV.zip")
    ELSE (IF translation THEN ".gkg.csv.zip"
          ELSE ".translation.gkg.csv.zip")

\* caboose, lines 46-60, for a table of Tables
caboose(table, translation) ==
    IF table = "events"
    THEN (IF ~translation THEN ".export.CSV.zip"
          ELSE ".translation.export.CSV.zip")
    ELSE IF table = "mentions"
    THEN (IF ~translation THEN ".mentions.CSV.zip"
          ELSE ".translation.mentions.CSV.zip")
    ELSE (IF ~translation THEN ".gkg.csv.zip"
          ELSE ".translation.gkg.csv.zip")

\* gdelt.helpers._testdate: the datetime a bucket string spells
testdate(x) == parse(x)

\* the lambda of lines 92-95, applied to one bucket of a list that is not
\* wholly after the cutover
UrlOfMixed(x, cab) ==
    IF DayOf(testdate(x)) < Cutover THEN <<base, x, ".zip">>
    ELSE <<base, x, cab>>

\* mutant of UrlList: one bucket before the cutover puts the whole list on
\* the generic suffix
UrlListWhole(items, cab) ==
    IF ~(\A i \in 1..Len(items) : testdate(items[i]) > Midnight(Cutover))
    THEN [i \in 1..Len(items) |-> <<base, items[i], ".zip">>]
    ELSE [i \in 1..Len(items) |-> <<base, items[i], cab>>]

\* the list branch, lines 67-99
UrlList(items, cab) ==
    IF ~(\A i \in 1..Len(items) : testdate(items[i]) > Midnight(Cutover))
    THEN [i \in 1..Len(items) |-> UrlOfMixed(items[i], cab)]
    ELSE [i \in 1..Len(items) |-> <<base, items[i], cab>>]

\* the str branch, lines 101-110: the inner test is for a list, which the
\* branch above has taken, so caboose is never replaced here
UrlStr(x, cab) == <<base, x, cab>>

\* _urlBuilder(dateString, table, translation)
urlBuilder(dateString, table, translation) ==
    IF table \notin Tables
    THEN Raised("ValueError: incorrect GDELT table type")
    ELSE IF dateString.isList
    THEN Returned([isList |-> TRUE,
                   items |-> UrlList(dateString.items,
                                     caboose(table, translation))])
    ELSE Returned([isList |-> FALSE,
                   items |-> <<UrlStr(dateString.items[1],
                                      caboose(table, translation))>>])

----------------------------------------------------------------------------
(* gdelt/dateFuncs.py, which base.py imports: date range resolution and   *)
(* coverage expansion                                                      *)

IsLeap(y) == (y % 4 = 0 /\ y % 100 # 0) \/ y % 400 = 0

DaysIn(y, m) ==
    IF m = 2 THEN (IF IsLeap(y) THEN 29 ELSE 28)
    ELSE IF m \in {4, 6, 9, 11} THEN 30 ELSE 31

\* the calendar day after day YYYYMMDD
NextDay(day) ==
    LET y == day \div 10000
        m == (day \div 100) % 100
        d == day % 100
    IN  IF d < DaysIn(y, m) THEN day + 1
        ELSE IF m < 12 THEN y * 10000 + (m + 1) * 100 + 1
        ELSE (y + 1) * 10000 + 101

RECURSIVE DayRange(_, _)
\* every calendar day from a to b, both included
DayRange(a, b) == IF a > b THEN <<>> ELSE <<a>> \o DayRange(NextDay(a), b)

\* _dateRanger(date): one day for a str or a 1-element list, the closed
\* range for 2 elements, the days as given for 3 or more
dateRanger(date) ==
    IF ~date.isList
    THEN [isList |-> FALSE, items |-> <<DayOf(parse(date.items[1]))>>]
    ELSE LET nd == NewDate(date.items)
             days == [i \in 1..Len(nd) |-> DayOf(parseIso(nd[i]))]
         IN  IF Len(days) = 1 THEN [isList |-> FALSE, items |-> days]
             ELSE IF Len(days) = 2
             THEN [isList |-> TRUE, items |-> DayRange(days[1], days[2])]
             ELSE [isList |-> TRUE, items |-> days]

RECURSIVE Digits(_, _)
\* n written in `width` decimal digits
Digits(n, width) ==
    IF width = 0 THEN <<>> ELSE Digits(n \div 10, width - 1) \o <<n % 10>>

\* the bucket string YYYYMMDDHHMMSS of quarter-hour i of a day
Stamp(day, i) ==
    Digits(day, 8) \o Digits((15 * i) \div 60, 2) \o Digits((15 * i) % 60, 2)
        \o <<0, 0>>

\* the quarter-hours of a day that are published when the clock reads now
SlotsOf(day, now) ==
    IF day = DayOf(now)
    THEN {i \in 0..(SlotsPerDay - 1) : i <= now % 100}
    ELSE 0..(SlotsPerDay - 1)

RECURSIVE StampsFrom(_, _, _)
\* the published quarter-hours of a day from index i on, in order
StampsFrom(day, i, now) ==
    IF i \notin SlotsOf(day, now) THEN <<>>
    ELSE <<Stamp(day, i)>> \o StampsFrom(day, i + 1, now)

RECURSIVE Expand(_, _)
\* the quarter-hour buckets of a sequence of days, day after day
Expand(days, now) ==
    IF Len(days) = 0 THEN <<>>
    ELSE StampsFrom(days[1], 0, now) \o Expand(Tail(days), now)

\* _gdeltRangeString(days, coverage): a str for one day without coverage, a
\* list otherwise
gdeltRangeString(days, coverage, now) ==
    IF coverage THEN [isList |-> TRUE, items |-> Expand(days.items, now)]
    ELSE [isList |-> days.isList,
          items |-> [i \in 1..Len(days.items) |-> Digits(days.items[i], 8)]]

----------------------------------------------------------------------------
(* gdelt/base.py: the gdelt object and Search *)

\* valid, line 292
valid == {"events", "gkg", "vgkg", "iatv", "mentions"}

\* proxies=None, the default of __init__
NoProxies == "None"

\* a proxies dict given to __init__
ProxyMap == "{'http': 'http://10.10.1.10:3128'}"

\* number of names of the events schema (the columns listed at lines 127-144)
EventsWidth == 61

\* number of names of the mentions schema (data/mentions.csv)
MentionsWidth == 16

\* number of names of the gkg schema (data/gkg2.csv)
GkgWidth == 27

\* the column count line 450 tests for
DriftWidth == 57

\* a schema: its column names, in declared order, as their positions
Heads(n) == [i \in 1..n |-> i]

\* an attribute that may not be set yet is <<>> or <<value>>
Unset == <<>>

\* gdelt.__init__, lines 161-181
Constructed(proxies) ==
    [proxies |-> proxies, translation |-> Unset, coverage |-> Unset,
     date |-> Unset, table |-> Unset, datesString |-> Unset,
     events_columns |-> Unset, mentions_columns |-> Unset,
     gkg_columns |-> Unset, download_list |-> Unset, final |-> Unset,
     queryTime |-> Unset]

\* dt.strftime('%m-%d-%Y %H:%M:%S')
strftime(dt) == <<str(dt).M, str(dt).D, str(dt).Y, str(dt).q>>

\* the default of Search's queryTime parameter, line 194: the expression is
\* evaluated once, when the def statement of Search runs as the module is
\* loaded, which is no later than the first reading of the clock
queryTimeDefault == strftime(Clock[1])

NoCall ==
    [date |-> [isList |-> FALSE, items |-> <<>>], table |-> "",
     coverage |-> FALSE, translation |-> FALSE]

NoOutcome == [state |-> "none", err |-> ""]

NoTrace == [built |-> 0, pools |-> 0, tasks |-> <<>>]

NoPool == [state |-> "none", kind |-> "", pending |-> 0, nones |-> 0,
           frames |-> 0, width |-> 0]

\* results when no table is bound to it, or None is
NoResults == [isNone |-> TRUE, width |-> 0, rows |-> 0, columns |-> <<>>]

\* a table of `width` positional columns and `rows` rows, no names applied
Frame(width, rows) ==
    [isNone |-> FALSE, width |-> width, rows |-> rows, columns |-> <<>>]

NoFn == [done |-> FALSE]

\* the schema attribute lines 347-373 set
WithColumns(obj, table) ==
    IF table = "events"
    THEN [obj EXCEPT !.events_columns = <<Heads(EventsWidth)>>]
    ELSE IF table = "mentions"
    THEN [obj EXCEPT !.mentions_columns = <<Heads(MentionsWidth)>>]
    ELSE [obj EXCEPT !.gkg_columns = <<Heads(GkgWidth)>>]

\* the `columns` local after lines 377-409: unbound for a table that is none
\* of events, gkg, mentions
ColumnsOf(obj, table) ==
    IF table = "events" THEN obj.events_columns
    ELSE IF table = "gkg" THEN obj.gkg_columns
    ELSE IF table = "mentions" THEN obj.mentions_columns
    ELSE Unset

\* the expanded buckets of lines 305-306 and 381-409
Buckets(date, coverage, now) == gdeltRangeString(dateRanger(date), coverage, now)

\* a ranger that expands with the other coverage setting than the one asked
v2RangerOther(coverage) == coverage # TRUE

\* the coverage setting of the ranger lines 379-409 pick: v2RangerCoverage
\* when self.coverage is True, v2RangerNoCoverage otherwise
v2Ranger(coverage) == coverage = TRUE

\* self.download_list after lines 377-409: assigned for events, gkg and
\* mentions, left as it was for any other table; buckets is the expansion
\* of the picked ranger
WithDownloadList(obj, table, translation, buckets) ==
    IF table \in Tables
    THEN [obj EXCEPT !.download_list =
             <<urlBuilder(buckets, table, translation).ret>>]
    ELSE obj

\* lines 299-306 and 347-409: the attributes of the object once the inputs
\* are accepted; buckets is the range expansion of lines 305-306, ranged
\* the one of lines 381-409
Prepared(obj, date, table, coverage, translation, buckets, ranged) ==
    WithDownloadList(
        WithColumns(
            [obj EXCEPT !.coverage = <<coverage>>, !.date = <<date>>,
                        !.table = <<table>>, !.translation = <<translation>>,
                        !.datesString = <<buckets>>,
                        !.queryTime = <<queryTimeDefault>>],
            table),
        table, translation, ranged)

\* lines 291-298: the error Search raises before it sets anything, "" if none
EntryError(date, table, now) ==
    IF table \notin valid THEN "ValueError: not a valid table name"
    ELSE date_input_check(date, now).err

\* columns.insert(27, 'CAMEOCodeDescription'), lines 463-467; the added name
\* is written 0
WithCameo(names) == SubSeq(names, 1, 27) \o <<0>> \o SubSeq(names, 28, Len(names))

\* eventWork(url), line 342: the worker with table and proxies bound
EventTask(obj, url) == [url |-> url, table |-> <<"events">>, proxies |-> <<obj.proxies>>]

\* _mp_worker(url, proxies=self.proxies), line 422
DirectTask(obj, url) == [url |-> url, table |-> Unset, proxies |-> <<obj.proxies>>]

\* executor.map(_mp_worker, self.download_list), line 439: called with the
\* locator alone
MappedTask(obj, url) == [url |-> url, table |-> Unset, proxies |-> Unset]

\* the task of the single-locator path, lines 413-422
SingleTask(obj, url) ==
    IF obj.table = <<"events">> THEN EventTask(obj, url) ELSE DirectTask(obj, url)

\* the task the pool of lines 424-439 runs for one locator
PoolTask(obj, url) ==
    IF obj.table = <<"events">> THEN EventTask(obj, url) ELSE MappedTask(obj, url)

SchemaWidth(table) ==
    IF table = "events" THEN EventsWidth
    ELSE IF table = "mentions" THEN MentionsWidth
    ELSE GkgWidth

\* the column counts a fetched file may have
FeedWidths(table) == {DriftWidth, SchemaWidth(table) - 1, SchemaWidth(table)}

\* gdelt.parallel._mp_worker: the parsed file, which has rows, or None when
\* the fetch or the parse failed
WorkerResults(table) == {NoResults} \cup {Frame(w, 1) : w \in FeedWidths(table)}

\* pd.concat(downloaded_dfs), lines 443-445: None entries are dropped
Concat(p) == Frame(p.width, p.frames)

\* lines 448-454: the names given to a table that is not None
NamesFor(res, columns) ==
    IF res.width = DriftWidth THEN SubSeq(columns, 1, Len(columns) - 1)
    ELSE columns

Raise(e) == [state |-> "raised", err |-> e]

EmptyResultError == "ValueError: This GDELT query returned no data"

\* an exception that comes out of a fetch: one the worker does not catch, or
\* one of the pool itself (a worker process that died, a result that does
\* not unpickle)
TaskError == "Exception: raised by a fetch task"

----------------------------------------------------------------------------
(* Search, step by step *)

Init ==
    /\ clock = 1
    /\ pc = "idle"
    /\ self \in {Constructed(p) : p \in {NoProxies, ProxyMap}}
    /\ call = NoCall
    /\ outcome = NoOutcome
    /\ trace = NoTrace
    /\ pool = NoPool
    /\ results = NoResults
    /\ fn = NoFn

\* the system clock moves on; only the entry of Search reads it
Tick ==
    /\ pc = "idle"
    /\ clock < Len(Clock)
    /\ clock' = clock + 1
    /\ UNCHANGED <<pc, self, call, outcome, trace, pool, results, fn>>

\* Search(date, table, coverage, translation) up to its first fetch,
\* lines 291-409
SearchCall(date, table, coverage, translation) ==
    /\ pc = "idle"
    /\ call' = [date |-> date, table |-> table, coverage |-> coverage,
                translation |-> translation]
    /\ LET error == EntryError(date, table, Now)
           buckets == Buckets(date, coverage, Now)
           ranged == IF v2Ranger(coverage) = coverage THEN buckets
                     ELSE Buckets(date, v2Ranger(coverage), Now)
       IN  IF error # ""
           THEN /\ outcome' = Raise(error)
                /\ pc' = "done"
                /\ UNCHANGED <<self, trace>>
           ELSE /\ self' = Prepared(self, date, table, coverage, translation,
                                    buckets, ranged)
                /\ trace' = [trace EXCEPT
                                !.built = IF table \in Tables THEN 1 ELSE 0]
                /\ pc' = IF buckets.isList THEN "multi" ELSE "single"
                /\ UNCHANGED outcome
    /\ UNCHANGED <<clock, pool, results, fn>>

\* the single-locator path, lines 413-422
FetchSingle ==
    /\ pc = "single"
    /\ IF self.download_list = Unset
       THEN /\ outcome' = Raise("AttributeError: download_list")
            /\ pc' = "done"
            /\ UNCHANGED <<trace, results>>
       ELSE /\ trace' = [trace EXCEPT !.tasks =
                  <<SingleTask(self, self.download_list[1].items[1])>>]
            /\ results' \in WorkerResults(self.table[1])
            /\ pc' = "finish"
            /\ UNCHANGED outcome
    /\ UNCHANGED <<clock, self, call, pool, fn>>

\* the multi-locator path creates its pool and hands it one task per
\* locator, lines 424-439
PoolStart ==
    /\ pc = "multi"
    /\ LET kind == IF self.table = <<"events">> THEN "Pool" ELSE "Executor"
       IN  IF self.download_list = Unset
           THEN /\ pool' = [NoPool EXCEPT !.state = "closed", !.kind = kind]
                /\ trace' = [trace EXCEPT !.pools = @ + 1]
                /\ outcome' = Raise("AttributeError: download_list")
                /\ pc' = "done"
           ELSE LET urls == self.download_list[1].items
                IN  /\ pool' = [NoPool EXCEPT !.state = "open", !.kind = kind,
                                              !.pending = Len(urls)]
                    /\ trace' = [trace EXCEPT
                           !.pools = @ + 1,
                           !.tasks = [i \in 1..Len(urls) |-> PoolTask(self, urls[i])]]
                    /\ pc' = "pool"
                    /\ UNCHANGED outcome
    /\ UNCHANGED <<clock, self, call, results, fn>>

\* one task of the pool completes
TaskDone ==
    /\ pc = "pool"
    /\ pool.pending > 0
    /\ \E r \in WorkerResults(self.table[1]) :
          /\ r.isNone \/ pool.frames = 0 \/ r.width = pool.width
          /\ pool' = IF r.isNone
                     THEN [pool EXCEPT !.pending = @ - 1, !.nones = @ + 1]
                     ELSE [pool EXCEPT !.pending = @ - 1, !.frames = @ + 1,
                                       !.width = r.width]
    /\ UNCHANGED <<clock, pc, self, call, outcome, trace, results, fn>>

\* the fetch of the single-locator path raises: lines 413-422 have no
\* handler, the exception leaves Search
FetchRaises ==
    /\ pc = "single"
    /\ self.download_list # Unset
    /\ trace' = [trace EXCEPT !.tasks =
           <<SingleTask(self, self.download_list[1].items[1])>>]
    /\ outcome' = Raise(TaskError)
    /\ pc' = "done"
    /\ UNCHANGED <<clock, self, call, pool, results, fn>>

\* a task of the pool raises and the exception comes out of the iteration
\* of the results: on the events path, line 429, it leaves Search before
\* pool.close(), pool.terminate() and pool.join() of lines 431-433 run; on
\* the other path the with statement of line 437 shuts the executor down as
\* the exception passes
TaskRaises ==
    /\ pc = "pool"
    /\ pool.pending > 0
    /\ pool' = IF pool.kind = "Pool" THEN pool
               ELSE [pool EXCEPT !.state = "closed"]
    /\ outcome' = Raise(TaskError)
    /\ pc' = "done"
    /\ UNCHANGED <<clock, self, call, trace, results, fn>>

\* all tasks are in: the pool is torn down and the tables are concatenated,
\* lines 429-445; pd.concat raises when every entry is None
PoolCollect ==
    /\ pc = "pool"
    /\ pool.pending = 0
    /\ pool' = [pool EXCEPT !.state = "closed"]
    /\ IF pool.frames = 0
       THEN /\ outcome' = Raise("ValueError: All objects passed were None")
            /\ pc' = "done"
            /\ UNCHANGED results
       ELSE /\ results' = Concat(pool)
            /\ pc' = "finish"
            /\ UNCHANGED outcome
    /\ UNCHANGED <<clock, self, call, trace, fn>>

\* lines 448-502: the schema, the empty check, the CAMEO column, the return
Finish ==
    /\ pc = "finish"
    /\ pc' = "done"
    /\ LET columns == ColumnsOf(self, self.table[1])
       IN  IF results.isNone
           THEN /\ outcome' = Raise(EmptyResultError)
                /\ UNCHANGED <<self, results>>
           ELSE IF columns = Unset
           THEN /\ outcome' = Raise("UnboundLocalError: columns")
                /\ UNCHANGED <<self, results>>
           ELSE IF Len(NamesFor(results, columns[1])) # results.width
           THEN /\ outcome' = Raise("ValueError: Length mismatch")
                /\ UNCHANGED <<self, results>>
           ELSE LET named == [results EXCEPT !.columns = NamesFor(results, columns[1])]
                    final == IF self.table = <<"events">>
                             THEN [named EXCEPT !.columns = WithCameo(@),
                                                !.width = @ + 1]
                             ELSE named
                IN  /\ results' = final
                    /\ self' = [self EXCEPT !.final = <<final>>]
                    /\ outcome' = [state |-> "returned", err |-> ""]
    /\ UNCHANGED <<clock, call, trace, pool, fn>>

\* the date strings Search is called with
SearchStrs == {<<2,0,1,6,1,0>>, <<2,0,1,6,1,0,0,2>>, <<2,0,1,7>>}

\* lists of 1 to n of the strings of S
Lists(S, n) == UNION {[1..k -> S] : k \in 1..n}

\* a date argument: a str (written in full, YYYYMMDD) or a list
DateArgs(S, n) ==
    {[isList |-> FALSE, items |-> <<s>>] : s \in {x \in S : Len(x) = 8}}
        \cup {[isList |-> TRUE, items |-> l] : l \in Lists(S, n)}

\* the table arguments drawn: the three tables, one more name of valid, and
\* a name that is not in valid
TableArgs == Tables \cup {"vgkg", "bogus"}

\* a caller calls Search on the object
Search ==
    /\ pc = "idle"
    /\ \E date \in DateArgs(SearchStrs, MaxLen), table \in TableArgs,
          coverage \in BOOLEAN, translation \in BOOLEAN :
          SearchCall(date, table, coverage, translation)

Next ==
    \/ Tick
    \/ Search
    \/ FetchSingle
    \/ FetchRaises
    \/ PoolStart
    \/ TaskDone
    \/ TaskRaises
    \/ PoolCollect
    \/ Finish

Spec == Init /\ [][Next]_vars

-----------------------------------------------------------------------------
(* several Search calls on one object *)

\* Search has returned or raised: its locals are gone, the attributes it
\* set stay on the object
CallEnds ==
    /\ pc = "done"
    /\ pc' = "idle"
    /\ call' = NoCall
    /\ outcome' = NoOutcome
    /\ trace' = NoTrace
    /\ pool' = NoPool
    /\ results' = NoResults
    /\ UNCHANGED <<clock, self, fn>>

\* the dates of the repeated calls: one day each, as a str or a 1-element
\* list
AgainDates == DateArgs({<<2,0,1,6,1,0>>, <<2,0,1,6,1,0,0,2>>}, 1)

\* a caller calls Search for one day without coverage, the first time or
\* again on the same object
SearchAgain ==
    /\ pc = "idle"
    /\ \E date \in AgainDates, table \in TableArgs, translation \in BOOLEAN :
          SearchCall(date, table, FALSE, translation)

NextAgain ==
    \/ Tick
    \/ SearchAgain
    \/ FetchSingle
    \/ FetchRaises
    \/ Finish
    \/ CallEnds

SpecAgain == Init /\ [][NextAgain]_vars

----------------------------------------------------------------------------
(* _date_input_check applied on its own *)

\* the date strings _date_input_check is applied to: years, year-months and
\* full dates on both sides of Feb 18 2015 and of the clock
CheckStrs ==
    {<<2,0,1,5>>, <<2,0,1,6>>, <<2,0,1,7>>, <<2,0,1,5,0,2>>, <<2,0,1,6,1,0>>,
     <<2,0,1,5,0,2,0,1>>, <<2,0,1,5,0,2,1,7>>, <<2,0,1,5,0,2,1,8>>,
     <<2,0,1,5,0,2,1,9>>, <<2,0,1,6,0,1,0,1>>, <<2,0,1,6,1,0,0,2>>}

Idle ==
    /\ clock = 1
    /\ pc = "idle"
    /\ self = Constructed(NoProxies)
    /\ call = NoCall
    /\ outcome = NoOutcome
    /\ trace = NoTrace
    /\ pool = NoPool
    /\ results = NoResults

InitCheck ==
    /\ Idle
    /\ fn \in {[done |-> FALSE, date |-> d, now |-> 0, res |-> Raised("")] :
                 d \in DateArgs(CheckStrs, MaxLen)}

\* _date_input_check(date) is called
ApplyCheck ==
    /\ ~fn.done
    /\ fn' = [fn EXCEPT !.done = TRUE, !.now = Now,
                        !.res = date_input_check(fn.date, Now)]
    /\ UNCHANGED <<clock, pc, self, call, outcome, trace, pool, results>>

NextCheck == Tick \/ ApplyCheck

SpecCheck == InitCheck /\ [][NextCheck]_vars

----------------------------------------------------------------------------
(* _urlBuilder applied on its own *)

\* the bucket strings _urlBuilder is applied to: days and quarter-hours on
\* both sides of the cutover
BucketStrs ==
    {Digits(20130331, 8), Digits(20130401, 8), Digits(20130402, 8),
     Digits(20161002, 8), Stamp(20130331, 1), Stamp(20130401, 1)}

\* a dateString argument: a str or a list
BucketArgs ==
    {[isList |-> FALSE, items |-> <<s>>] : s \in BucketStrs}
        \cup {[isList |-> TRUE, items |-> l] : l \in Lists(BucketStrs, MaxLen)}

InitUrl ==
    /\ Idle
    /\ fn \in {[done |-> FALSE, dateString |-> d, table |-> t,
                translation |-> tr, res |-> Raised("")] :
                 d \in BucketArgs, t \in Tables \cup {"vgkg"}, tr \in BOOLEAN}

\* _urlBuilder(dateString, table, translation) is called
ApplyUrl ==
    /\ ~fn.done
    /\ fn' = [fn EXCEPT !.done = TRUE,
                        !.res = urlBuilder(fn.dateString, fn.table, fn.translation)]
    /\ UNCHANGED <<clock, pc, self, call, outcome, trace, pool, results>>

NextUrl == ApplyUrl

SpecUrl == InitUrl /\ [][NextUrl]_vars

----------------------------------------------------------------------------
(* Properties *)

\* the datetime element i of a date argument stands for: a str is parsed as
\* written, a list element as a year, a year-month or a full date by length
DateAt(date, i) ==
    IF ~date.isList THEN parse(date.items[i])
    ELSE IF Len(date.items[i]) = 4 THEN Midnight(Num(date.items[i]) * 10000 + 101)
    ELSE IF Len(date.items[i]) = 6 THEN Midnight(Num(date.items[i]) * 100 + 1)
    ELSE Midnight(Num(date.items[i]))

HasFutureDate(date, now) == \E i \in 1..Len(date.items) : DateAt(date, i) > now

HasDateBeforeMin(date) ==
    \E i \in 1..Len(date.items) : DateAt(date, i) < Midnight(MinDate)

\* the errors _date_input_check raises
DateErrors ==
    {"ValueError: date greater than the current date",
     "ValueError: does not parse to a date format",
     "ValueError: start date greater than or equal to end date",
     "ValueError: GDELT 2.0 only supports Feb 18 2015 - Present"}

TableError == "ValueError: not a valid table name"

\* C1: a Search call whose date input (str, 1-element list, 2-element list,
\* list of 3 or more) holds a date after the current time ends in a
\* ValueError, the one _date_input_check raises once the table name is
\* accepted, with no locator built, no pool created and no fetch issued.
C1_FutureDateFailsBeforeLocators ==
    (pc # "idle" /\ HasFutureDate(call.date, Now))
        => /\ pc = "done"
           /\ outcome.state = "raised"
           /\ outcome.err \in DateErrors \cup {TableError}
           /\ call.table \in valid =>
                 /\ outcome.err \in DateErrors
                 /\ outcome.err = date_input_check(call.date, Now).err
           /\ trace = NoTrace
           /\ self.download_list = Unset

C1_Witness ==
    /\ pc = "done"
    /\ call.date.isList
    /\ Len(call.date.items) = 3
    /\ HasFutureDate(call.date, Now)
    /\ ~HasDateBeforeMin(call.date)
    /\ call.table = "events"
    /\ outcome.err = "ValueError: date greater than the current date"

\* C2: whatever the form of the date input, a date before 2015-02-18 in it
\* makes _date_input_check raise one of its errors.
C2_DateBeforeMinRejected ==
    (fn.done /\ HasDateBeforeMin(fn.date))
        => (~fn.res.ok /\ fn.res.err \in DateErrors)

\* C3: for a 2-element list, _date_input_check raises whenever the first
\* date is not strictly before the second (equal after normalization
\* included), and accepts only when start < end and neither date is after
\* the current time.
C3_RangeNeedsStartBeforeEnd ==
    (fn.done /\ fn.date.isList /\ Len(fn.date.items) = 2)
        => /\ ~(DateAt(fn.date, 1) < DateAt(fn.date, 2))
                => (~fn.res.ok /\ fn.res.err \in DateErrors)
           /\ fn.res.ok
                => /\ DateAt(fn.date, 1) < DateAt(fn.date, 2)
                   /\ DateAt(fn.date, 1) <= fn.now
                   /\ DateAt(fn.date, 2) <= fn.now

C3_Witness ==
    /\ fn.done
    /\ fn.date.isList
    /\ Len(fn.date.items) = 2
    /\ Len(fn.date.items[1]) # Len(fn.date.items[2])
    /\ DateAt(fn.date, 1) = DateAt(fn.date, 2)
    /\ ~HasDateBeforeMin(fn.date)
    /\ fn.res.err = "ValueError: start date greater than or equal to end date"

\* the call in progress got past the checks of lines 291-298
Accepted == pc # "idle" /\ EntryError(call.date, call.table, Now) = ""

\* C4 as stated: on success _date_input_check returns the normalized list,
\* and that list is what Search goes on with.
C4_ReturnsNormalizedList ==
    (Accepted /\ call.date.isList)
        => /\ ~date_input_check(call.date, Now).ret.isNone
           /\ date_input_check(call.date, Now).ret.items = NewDate(call.date.items)
           /\ self.date = <<[isList |-> TRUE, items |-> NewDate(call.date.items)]>>

\* C4 amended: on success _date_input_check returns None; the normalized
\* list is used for the checks alone, and Search goes on with the date
\* argument as the caller gave it.
C4_ReturnsNoneSearchKeepsInput ==
    Accepted
        => /\ date_input_check(call.date, Now).ok
           /\ date_input_check(call.date, Now).ret = None
           /\ self.date = <<call.date>>

C4_Witness ==
    /\ Accepted
    /\ call.date.isList
    /\ \E i \in 1..Len(call.date.items) : Len(call.date.items[i]) = 6
    /\ self.date = <<call.date>>
    /\ outcome.state = "returned"

\* C5: a Search call whose table is none of events, mentions, gkg ends in
\* the invalid-table error with no locator built and no fetch issued.
C5_UnknownTableRejected ==
    (pc # "idle" /\ call.table \notin Tables)
        => /\ pc = "done"
           /\ outcome.err = TableError
           /\ trace = NoTrace

\* the suffix of each table and translation flag
Suffix ==
    [t \in Tables |->
        [tr \in BOOLEAN |->
            IF t = "events"
            THEN (IF tr THEN ".translation.export.CSV.zip" ELSE ".export.CSV.zip")
            ELSE IF t = "mentions"
            THEN (IF tr THEN ".translation.mentions.CSV.zip" ELSE ".mentions.CSV.zip")
            ELSE (IF tr THEN ".translation.gkg.csv.zip" ELSE ".gkg.csv.zip")]]

\* the day YYYYMMDD a bucket string starts with
BucketDay(b) == Num(SubSeq(b, 1, 8))

\* C6: for buckets dated on or after the cutover and a table of events,
\* mentions, gkg, _urlBuilder returns base + bucket + the suffix of (table,
\* translation): a str for a str, and for a list a list of the same length
\* in the same order.
C6_SuffixByTableAndTranslation ==
    (/\ fn.done
     /\ fn.table \in Tables
     /\ \A i \in 1..Len(fn.dateString.items) :
           BucketDay(fn.dateString.items[i]) >= Cutover)
        => /\ fn.res.ok
           /\ fn.res.ret.isList = fn.dateString.isList
           /\ Len(fn.res.ret.items) = Len(fn.dateString.items)
           /\ \A i \in 1..Len(fn.dateString.items) :
                 fn.res.ret.items[i] =
                    <<"http://data.gdeltproject.org/gdeltv2/",
                      fn.dateString.items[i], Suffix[fn.table][fn.translation]>>

C6_Witness ==
    /\ fn.done
    /\ fn.table = "gkg"
    /\ fn.translation
    /\ fn.dateString.isList
    /\ Len(fn.dateString.items) = 2
    /\ BucketDay(fn.dateString.items[1]) > Cutover
    /\ BucketDay(fn.dateString.items[2]) = Cutover
    /\ fn.res.ok
    /\ fn.res.ret.items[2][3] = ".translation.gkg.csv.zip"

\* the suffix the cutover rule gives a bucket
EpochSuffix(b, table, translation) ==
    IF BucketDay(b) < Cutover THEN ".zip" ELSE Suffix[table][translation]

\* C7: for a single bucket string _urlBuilder returns one locator, with the
\* generic suffix .zip when the day is before 2013-04-01 and the suffix of
\* (table, translation) otherwise.
C7_SingleBucketUsesEpochSuffix ==
    (fn.done /\ ~fn.dateString.isList /\ fn.table \in Tables)
        => /\ fn.res.ok
           /\ ~fn.res.ret.isList
           /\ fn.res.ret.items =
                 << <<"http://data.gdeltproject.org/gdeltv2/",
                      fn.dateString.items[1],
                      EpochSuffix(fn.dateString.items[1], fn.table, fn.translation)>> >>

\* C8: for a list of buckets the cutover rule is applied bucket by bucket:
\* .zip for each bucket dated before 2013-04-01, the suffix of (table,
\* translation) for each other one, in input order.
C8_CutoverPerBucket ==
    (fn.done /\ fn.dateString.isList /\ fn.table \in Tables)
        => /\ fn.res.ok
           /\ fn.res.ret.isList
           /\ Len(fn.res.ret.items) = Len(fn.dateString.items)
           /\ \A i \in 1..Len(fn.dateString.items) :
                 fn.res.ret.items[i] =
                    <<"http://data.gdeltproject.org/gdeltv2/",
                      fn.dateString.items[i],
                      EpochSuffix(fn.dateString.items[i], fn.table, fn.translation)>>

C8_Witness ==
    /\ fn.done
    /\ fn.dateString.isList
    /\ fn.table = "mentions"
    /\ Len(fn.dateString.items) = 3
    /\ BucketDay(fn.dateString.items[1]) > Cutover
    /\ BucketDay(fn.dateString.items[2]) < Cutover
    /\ BucketDay(fn.dateString.items[3]) = Cutover
    /\ fn.res.ok
    /\ fn.res.ret.items[1][3] = ".mentions.CSV.zip"
    /\ fn.res.ret.items[2][3] = ".zip"
    /\ fn.res.ret.items[3][3] = ".mentions.CSV.zip"

\* C9: on an object constructed with a proxies mapping, every fetch task
\* Search issues is given that mapping.
C9_EveryFetchGetsProxies ==
    self.proxies = ProxyMap
        => \A i \in 1..Len(trace.tasks) : trace.tasks[i].proxies = <<ProxyMap>>

\* every fetch of the call came back without a table
AllFetchedEmpty ==
    /\ trace.tasks # <<>>
    /\ outcome.err # TaskError
    /\ \/ pool.state = "none" /\ pc \in {"finish", "done"} /\ results.isNone
       \/ pool.state = "closed" /\ pool.pending = 0 /\ pool.frames = 0

\* C10: when every partial table of a query is empty, Search raises the
\* empty-result error; it never names the columns of, or returns, a table
\* without rows.
C10_AllEmptyRaisesEmptyResult ==
    /\ (pc = "done" /\ AllFetchedEmpty) => outcome.err = EmptyResultError
    /\ (~results.isNone /\ results.rows = 0)
          => (results.columns = <<>> /\ outcome.state # "returned")

\* the column count of the table the fetches gave: Finish adds one column
\* to a returned events table
FetchedWidth ==
    IF outcome.state = "returned" /\ call.table = "events"
    THEN results.width - 1
    ELSE results.width

\* the first w declared names of a table's schema, as Search leaves them
DeclaredNames(table, w) ==
    IF table = "events"
    THEN WithCameo(SubSeq(Heads(SchemaWidth(table)), 1, w))
    ELSE SubSeq(Heads(SchemaWidth(table)), 1, w)

\* C11: when the merged table has N or N-1 columns, N the number of declared
\* names of the table's schema, Search returns it named with the first N or
\* N-1 declared names.
C11_OneFewerColumnDropsLastName ==
    (/\ pc = "done"
     /\ call.table \in Tables
     /\ ~results.isNone
     /\ FetchedWidth \in {SchemaWidth(call.table) - 1, SchemaWidth(call.table)})
        => /\ outcome.state = "returned"
           /\ results.columns = DeclaredNames(call.table, FetchedWidth)

\* C12: for events, mentions and gkg the shape of the expanded buckets picks
\* the fetch path: a str gives one fetch in the caller and no pool, a list
\* gives one pool with one task per locator of download_list, and
\* download_list has the shape of the path taken.
C12_PathFollowsBucketShape ==
    (Accepted /\ call.table \in Tables) =>
        LET dl == self.download_list[1]
        IN  IF ~self.datesString[1].isList
            THEN /\ pc \in {"single", "finish", "done"}
                 /\ ~dl.isList
                 /\ trace.pools = 0
                 /\ pool = NoPool
                 /\ IF pc = "single" THEN trace.tasks = <<>>
                    ELSE /\ Len(trace.tasks) = 1
                         /\ trace.tasks[1].url = dl.items[1]
            ELSE /\ pc \in {"multi", "pool", "finish", "done"}
                 /\ dl.isList
                 /\ IF pc = "multi" THEN trace.pools = 0 /\ trace.tasks = <<>>
                    ELSE /\ trace.pools = 1
                         /\ pool.state # "none"
                         /\ Len(trace.tasks) = Len(dl.items)
                         /\ \A i \in 1..Len(dl.items) :
                                trace.tasks[i].url = dl.items[i]

\* a coverage query of one day went through a pool with several tasks
C12_Witness ==
    /\ pc = "done"
    /\ call.table \in Tables
    /\ call.coverage
    /\ Len(call.date.items) = 1
    /\ outcome.state = "returned"
    /\ pool.state = "closed"
    /\ Len(trace.tasks) >= 2

\* C13: a Search call that passes no queryTime records, as queryTime, the
\* system time at which that call ran.
C13_QueryTimeIsTimeOfCall ==
    Accepted => self.queryTime = <<strftime(Now)>>

\* C14: a date equal to the minimum date 2015-02-18 is accepted by
\* _date_input_check in a 1-element list, as the start of a 2-element range
\* and in a list of 3 or more dates, when every other test passes.
C14_MinDateIsAccepted ==
    (/\ fn.done
     /\ fn.date.isList
     /\ \E i \in 1..Len(fn.date.items) : DateAt(fn.date, i) = Midnight(MinDate)
     /\ ~HasDateBeforeMin(fn.date)
     /\ ~HasFutureDate(fn.date, fn.now)
     /\ Len(fn.date.items) = 2 =>
           /\ DateAt(fn.date, 1) = Midnight(MinDate)
           /\ DateAt(fn.date, 1) < DateAt(fn.date, 2))
        => fn.res.ok

\* C15: a multi-bucket call creates one pool of its own, and when the call
\* has ended, by a return or by an error of a fetch task or of the merge,
\* that pool is torn down, on the events path and on the mentions/gkg path.
C15_PoolTornDownWhenCallEnds ==
    /\ trace.pools <= 1
    /\ pool.state # "none" => trace.pools = 1
    /\ pc \in {"finish", "done"} => pool.state \in {"none", "closed"}

\* the locators the call's own arguments give
OwnLocators ==
    urlBuilder(Buckets(call.date, call.coverage, Now), call.table,
               call.translation).ret.items

\* C16: whatever calls the object served before, a call fetches only the
\* locators derived from its own arguments and names the columns of its
\* result with the schema of its own table.
C16_CallUsesItsOwnLocatorsAndSchema ==
    Accepted =>
        /\ trace.tasks # <<>> =>
              /\ call.table \in Tables
              /\ \A i \in 1..Len(trace.tasks) :
                     \E j \in 1..Len(OwnLocators) :
                         trace.tasks[i].url = OwnLocators[j]
        /\ results.columns # <<>> =>
              /\ call.table \in Tables
              /\ results.columns = DeclaredNames(call.table, FetchedWidth)

====
